---------------------------- MODULE Spec2Model ----------------------------
(***************************************************************************)
(* DHKEM(G, K) of src/src/kem/dhkem.rs: derive_keypair, gen_keypair,       *)
(* encap_with_eph and decap, as generated by impl_dhkem! for a             *)
(* Diffie-Hellman group G and a KDF K.                                     *)
(*                                                                         *)
(* The engine is stateless.  The state of the model is the caller's: the   *)
(* randomness source handed to gen_keypair, the last call made (`last`)    *)
(* and one earlier call the caller still holds the result of (`prev`).     *)
(*                                                                         *)
(* The group (crate::dhkex), the KDF (crate::kdf) and the helpers of       *)
(* crate::util are not part of dhkem.rs.  They are modelled from their     *)
(* contracts: the group is a small multiplicative group with a cofactor    *)
(* (as Curve25519 has), the KDF is collision free (its output is the       *)
(* term built from its three inputs).                                      *)
(***************************************************************************)
EXTENDS Naturals, Sequences, FiniteSets

VARIABLES rng, prev, last

vars == <<rng, prev, last>>

---------------------------------------------------------------------------
(* Bounds of the model *)

\* longest input keying material handed to derive_keypair
MaxIkmLen == 1

\* number of reads the randomness source serves
MaxFills == 1

---------------------------------------------------------------------------
(* Byte strings *)

RECURSIVE Sum(_)
Sum(s) == IF s = <<>> THEN 0 ELSE Head(s) + Sum(Tail(s))

RECURSIVE Zeros(_)
Zeros(n) == IF n = 0 THEN <<>> ELSE <<0>> \o Zeros(n - 1)

RECURSIVE I2OSP(_, _)
I2OSP(n, w) == IF w = 0 THEN <<>> ELSE I2OSP(n \div 256, w - 1) \o <<n % 256>>

\* Option<T>: None is <<>>, Some(x) is <<x>>
None == <<>>
Some(x) == <<x>>

---------------------------------------------------------------------------
(* The Group capability: a Diffie-Hellman group with a cofactor.           *)
(* Public keys are the nonzero residues modulo FieldPrime; BasePoint       *)
(* generates the subgroup of prime order SubgroupOrder; private keys are   *)
(* clamped to multiples of the cofactor.                                   *)

FieldPrime == 7
BasePoint == 2
SubgroupOrder == 3
Cofactor == 2

PublicKeys == 1 .. (FieldPrime - 1)

PrivateKeys ==
    {s \in 1 .. (FieldPrime - 2) : s % Cofactor = 0 /\ s % SubgroupOrder # 0}

RECURSIVE ModExp(_, _)
ModExp(b, e) == IF e = 0 THEN 1 ELSE (b * ModExp(b, e - 1)) % FieldPrime

\* sk_to_pk(sk): the public key of a private key
sk_to_pk(sk) == ModExp(BasePoint, sk)

\* dh(sk, pk): fails when the exchange yields the identity element
DhError == "DhError"
dh(sk, pk) ==
    LET r == ModExp(pk, sk)
    IN  IF r = 1 THEN [ok |-> FALSE, val |-> 0, err |-> DhError]
        ELSE [ok |-> TRUE, val |-> r, err |-> ""]

\* fixed-size serialization of a public key and of an exchange result
MAX_PUBKEY_SIZE == 1
PublicKeyToBytes(pk) == I2OSP(pk, MAX_PUBKEY_SIZE)
KexResultToBytes(r) == I2OSP(r, MAX_PUBKEY_SIZE)

\* serialized size of a private key
PrivateKeySize == 1

\* the caller's randomness source (CryptoRng + RngCore): fill_bytes writes
\* the next n bytes of its stream and advances it
RngByte(seed, i) == (seed + 5 * i) % 256

RECURSIVE RngBytes(_, _, _)
RngBytes(seed, from, n) ==
    IF n = 0 THEN <<>>
    ELSE <<RngByte(seed, from)>> \o RngBytes(seed, from + 1, n - 1)

fill_bytes(csprng, n) ==
    [out |-> RngBytes(csprng.seed, csprng.pos, n),
     rng |-> [csprng EXCEPT !.pos = @ + n, !.reads = @ + 1]]

\* derive_keypair::<Kdf>(suite_id, ikm) of the group: a deterministic
\* function of the suite identifier and the keying material
DhDeriveKeypair(suite_id, ikm) ==
    LET idx == ((Sum(suite_id) \div 16) + Sum(ikm)) % Cardinality(PrivateKeys)
        sk == Cofactor * (idx + 1)
    IN  <<sk, sk_to_pk(sk)>>

---------------------------------------------------------------------------
(* The KDF capability *)

\* HKDF over a hash of hashLen bytes: Expand serves at most 255 blocks
HkdfSha256 == [name |-> "HkdfSha256", hashLen |-> 1, maxBlocks |-> 255]

\* a KDF whose Expand refuses the length of its own hash output
KdfShort == [name |-> "KdfShort", hashLen |-> 1, maxBlocks |-> 0]

\* extract_and_expand::<Kdf>(ikm, suite_id, info, out): fills out, or fails
\* when out is longer than the KDF can expand to
extract_and_expand(kdf, ikm, suite_id, info, outLen) ==
    IF outLen > kdf.maxBlocks * kdf.hashLen
    THEN [ok |-> FALSE, out |-> <<>>]
    ELSE [ok |-> TRUE, out |-> <<ikm, suite_id, info>>]

---------------------------------------------------------------------------
(* crate::util *)

\* kem_suite_id::<Kem>(): "KEM" || I2OSP(KEM_ID, 2)
kem_suite_id(kem) == <<75, 69, 77>> \o I2OSP(kem.kem_id, 2)

\* concat_with_known_maxlen!(maxlen, parts...): a buffer of
\* maxlen * (number of parts) bytes, the parts written one after the other,
\* and the number of bytes written
RECURSIVE Flatten(_)
Flatten(parts) ==
    IF parts = <<>> THEN <<>> ELSE Head(parts) \o Flatten(Tail(parts))

concat_with_known_maxlen(maxlen, parts) ==
    LET body == Flatten(parts)
        cap  == maxlen * Len(parts)
    IN  [buf |-> body \o Zeros(cap - Len(body)), size |-> Len(body)]

\* &buf[..size]
Slice(c) == SubSeq(c.buf, 1, c.size)

---------------------------------------------------------------------------
(* The KEM instantiations: impl_dhkem!(name, dhkex, kdf, kem_id, doc) *)

X25519HkdfSha256 == [name |-> "X25519HkdfSha256", kem_id |-> 32, kdf |-> HkdfSha256]
DhP256HkdfSha256 == [name |-> "DhP256HkdfSha256", kem_id |-> 16, kdf |-> HkdfSha256]
DhKemShort == [name |-> "DhKemShort", kem_id |-> 48, kdf |-> KdfShort]

Kems == {X25519HkdfSha256, DhP256HkdfSha256, DhKemShort}

\* type NSecret = the output size of the hash underlying the KDF
NSecret(kem) == kem.kdf.hashLen

---------------------------------------------------------------------------
(* Results *)

Ok(v) == [tag |-> "Ok", val |-> v, err |-> ""]
Err(e) == [tag |-> "Err", val |-> <<>>, err |-> e]
Panic(msg) == [tag |-> "Panic", val |-> <<>>, err |-> msg]

EncapError == "EncapError"
DecapError == "DecapError"

\* struct $encapped_key(PublicKey), struct SharedSecret(GenericArray)
EncappedKey(pk) == <<pk>>
SharedSecret(bytes) == <<bytes>>

---------------------------------------------------------------------------
(* impl Serializable for $encapped_key *)

EncappedKeyToBytes(ek) == PublicKeyToBytes(ek[1])

---------------------------------------------------------------------------
(* impl KemTrait for $kem_name *)

derive_keypair_shared_suite(kem, ikm) ==
    DhDeriveKeypair(kem_suite_id(X25519HkdfSha256), ikm)
derive_keypair_counting(kem, ikm) ==
    DhDeriveKeypair(kem_suite_id(kem), ikm \o <<rng.reads>>)
derive_keypair(kem, ikm) ==
    LET suite_id == kem_suite_id(kem)
    IN  DhDeriveKeypair(suite_id, ikm)

gen_keypair_two_reads(kem, csprng) ==
    LET first  == fill_bytes(csprng, PrivateKeySize)
        second == fill_bytes(first.rng, PrivateKeySize)
    IN  [keypair |-> derive_keypair(kem, second.out), csprng |-> second.rng]
gen_keypair(kem, csprng) ==
    LET ikm  == Zeros(PrivateKeySize)
        fill == fill_bytes(csprng, Len(ikm))
    IN  [keypair |-> derive_keypair(kem, fill.out), csprng |-> fill.rng]

\* .map_err(|_| HpkeError::EncapError), .map_err(|_| HpkeError::DecapError)
MapErrPassThrough(e) == e
MapErrEncap(e) == EncapError
MapErrDecap(e) == DecapError

\* .expect("shared secret is way too big") on a failed extract_and_expand
ExpectAsError(msg) == Err(msg)
ExpectFailed(msg) == Panic(msg)

\* the encapped key is the ephemeral pubkey
MakeEncappedKeyOfRecipient(sk_eph, pk_recip) == EncappedKey(pk_recip)
MakeEncappedKey(sk_eph, pk_recip) ==
    LET pk_eph == sk_to_pk(sk_eph)
    IN  EncappedKey(pk_eph)

\* kem_context = encapped_key || pk_recip || pk_sender_id
EncapAuthContextDerived(encapped_key, pk_recip, sender_id_keypair) ==
    Slice(concat_with_known_maxlen(MAX_PUBKEY_SIZE,
            <<EncappedKeyToBytes(encapped_key),
              PublicKeyToBytes(pk_recip),
              PublicKeyToBytes(sk_to_pk(sender_id_keypair[1]))>>))
EncapAuthContext(encapped_key, pk_recip, sender_id_keypair) ==
    LET pk_sender_id == sender_id_keypair[2]
    IN  Slice(concat_with_known_maxlen(MAX_PUBKEY_SIZE,
                <<EncappedKeyToBytes(encapped_key),
                  PublicKeyToBytes(pk_recip),
                  PublicKeyToBytes(pk_sender_id)>>))

\* kem_context = encapped_key || pk_recip
EncapBaseContext(encapped_key, pk_recip) ==
    Slice(concat_with_known_maxlen(MAX_PUBKEY_SIZE,
            <<EncappedKeyToBytes(encapped_key), PublicKeyToBytes(pk_recip)>>))

\* concatted_secrets = kex_res_eph || kex_res_identity
ConcattedSecrets(kex_res_eph, kex_res_identity) ==
    Slice(concat_with_known_maxlen(MAX_PUBKEY_SIZE,
            <<KexResultToBytes(kex_res_eph), KexResultToBytes(kex_res_identity)>>))

encap_with_eph(kem, pk_recip, sender_id_keypair, sk_eph) ==
    LET suite_id == kem_suite_id(kem)
        kex_res_eph == dh(sk_eph, pk_recip)
    IN  IF ~kex_res_eph.ok THEN Err(MapErrEncap(kex_res_eph.err))
        ELSE
        LET encapped_key == MakeEncappedKey(sk_eph, pk_recip)
        IN  IF sender_id_keypair # None
            THEN
              LET pair == sender_id_keypair[1]
                  sk_sender_id == pair[1]
                  kem_context == EncapAuthContext(encapped_key, pk_recip, pair)
                  kex_res_identity == dh(sk_sender_id, pk_recip)
              IN  IF ~kex_res_identity.ok
                  THEN Err(MapErrEncap(kex_res_identity.err))
                  ELSE
                  LET concatted_secrets ==
                          ConcattedSecrets(kex_res_eph.val, kex_res_identity.val)
                      kdf == extract_and_expand(kem.kdf, concatted_secrets,
                                                suite_id, kem_context, NSecret(kem))
                  IN  IF ~kdf.ok THEN ExpectFailed("shared secret is way too big")
                      ELSE Ok(<<SharedSecret(kdf.out), encapped_key>>)
            ELSE
              LET kem_context == EncapBaseContext(encapped_key, pk_recip)
                  kdf == extract_and_expand(kem.kdf, KexResultToBytes(kex_res_eph.val),
                                            suite_id, kem_context, NSecret(kem))
              IN  IF ~kdf.ok THEN ExpectFailed("shared secret is way too big")
                  ELSE Ok(<<SharedSecret(kdf.out), encapped_key>>)

\* decap: kem_context = encapped_key || pk_recip || pk_sender_id
DecapAuthContext(encapped_key, pk_recip, pk_sender_id) ==
    Slice(concat_with_known_maxlen(MAX_PUBKEY_SIZE,
            <<EncappedKeyToBytes(encapped_key),
              PublicKeyToBytes(pk_recip),
              PublicKeyToBytes(pk_sender_id)>>))

\* decap: kem_context = encapped_key || pk_recip
DecapBaseContextSwapped(encapped_key, pk_recip) ==
    Slice(concat_with_known_maxlen(MAX_PUBKEY_SIZE,
            <<PublicKeyToBytes(pk_recip), EncappedKeyToBytes(encapped_key)>>))
DecapBaseContext(encapped_key, pk_recip) ==
    Slice(concat_with_known_maxlen(MAX_PUBKEY_SIZE,
            <<EncappedKeyToBytes(encapped_key), PublicKeyToBytes(pk_recip)>>))

\* decap: concatted_secrets = kex_res_eph || kex_res_identity
DecapConcattedSecretsSwapped(kex_res_eph, kex_res_identity) ==
    Slice(concat_with_known_maxlen(MAX_PUBKEY_SIZE,
            <<KexResultToBytes(kex_res_identity), KexResultToBytes(kex_res_eph)>>))
DecapConcattedSecrets(kex_res_eph, kex_res_identity) ==
    Slice(concat_with_known_maxlen(MAX_PUBKEY_SIZE,
            <<KexResultToBytes(kex_res_eph), KexResultToBytes(kex_res_identity)>>))

\* the else branch of decap
DecapBase(kem, sk_recip, pk_sender_id, encapped_key, kex_res_eph) ==
    LET suite_id == kem_suite_id(kem)
        pk_recip == sk_to_pk(sk_recip)
        kem_context == DecapBaseContext(encapped_key, pk_recip)
        kdf == extract_and_expand(kem.kdf, KexResultToBytes(kex_res_eph),
                                  suite_id, kem_context, NSecret(kem))
    IN  IF ~kdf.ok THEN ExpectFailed("shared secret is way too big")
        ELSE Ok(SharedSecret(kdf.out))

\* the if-let branch of decap
DecapAuthIgnoringSender(kem, sk_recip, pk_sender_id, encapped_key, kex_res_eph) ==
    DecapBase(kem, sk_recip, pk_sender_id, encapped_key, kex_res_eph)
DecapAuth(kem, sk_recip, pk_sender_id, encapped_key, kex_res_eph) ==
    LET suite_id == kem_suite_id(kem)
        pk_recip == sk_to_pk(sk_recip)
        pk_sender == pk_sender_id[1]
        kem_context == DecapAuthContext(encapped_key, pk_recip, pk_sender)
        kex_res_identity == dh(sk_recip, pk_sender)
    IN  IF ~kex_res_identity.ok THEN Err(MapErrDecap(kex_res_identity.err))
        ELSE
        LET concatted_secrets ==
                DecapConcattedSecrets(kex_res_eph, kex_res_identity.val)
            kdf == extract_and_expand(kem.kdf, concatted_secrets,
                                      suite_id, kem_context, NSecret(kem))
        IN  IF ~kdf.ok THEN ExpectFailed("shared secret is way too big")
            ELSE Ok(SharedSecret(kdf.out))

decap(kem, sk_recip, pk_sender_id, encapped_key) ==
    LET kex_res_eph == dh(sk_recip, encapped_key[1])
    IN  IF ~kex_res_eph.ok THEN Err(MapErrDecap(kex_res_eph.err))
        ELSE IF pk_sender_id # None
        THEN DecapAuth(kem, sk_recip, pk_sender_id, encapped_key, kex_res_eph.val)
        ELSE DecapBase(kem, sk_recip, pk_sender_id, encapped_key, kex_res_eph.val)

---------------------------------------------------------------------------
(* The caller: one call per step.  `last` is the call just made; `prev`    *)
(* is the earlier call that `last` answers (the encap a decap opens, the   *)
(* derive_keypair a later derive_keypair repeats), when there is one.      *)

RngSeeds == {3}

Bytes == {0, 1}

RECURSIVE ByteStrings(_)
ByteStrings(n) ==
    IF n = 0 THEN {<<>>}
    ELSE LET shorter == ByteStrings(n - 1)
         IN  shorter \cup {s \o <<b>> : s \in {t \in shorter : Len(t) = n - 1}, b \in Bytes}

Ikms == ByteStrings(MaxIkmLen)

SenderPairs == {None} \cup {Some(<<sk, pk>>) : sk \in PrivateKeys, pk \in PublicKeys}
SenderKeys == {None} \cup {Some(pk) : pk \in PublicKeys}

NoCall ==
    [op |-> "none", kem |-> X25519HkdfSha256, pk_recip |-> 0, sender |-> None,
     sk_eph |-> 0, sk_recip |-> 0, pk_sender |-> None, enc |-> None,
     ikm |-> <<>>, csprng |-> None, res |-> Ok(<<>>)]

\* call b answers call a: b decapsulates, under the same KEM and with the
\* private key of the recipient a addressed, the encapped key a returned;
\* or b derives a keypair from the keying material a derived one from
Answers(a, b) ==
    \/ /\ a.op = "encap" /\ a.res.tag = "Ok" /\ b.op = "decap"
       /\ b.kem = a.kem
       /\ b.enc = Some(a.res.val[2])
       /\ sk_to_pk(b.sk_recip) = a.pk_recip
    \/ /\ a.op = "derive" /\ b.op = "derive"
       /\ b.ikm = a.ikm

Shift(call) ==
    /\ last' = call
    /\ prev' = IF Answers(last, call) THEN last
               ELSE IF Answers(prev, call) THEN prev
               ELSE IF last.op = "derive" /\ call.op = "gen" THEN last
               ELSE NoCall

Init ==
    /\ rng \in {[seed |-> s, pos |-> 0, reads |-> 0] : s \in RngSeeds}
    /\ prev = NoCall
    /\ last = NoCall

DeriveKeypair ==
    \E kem \in Kems, ikm \in Ikms :
        /\ Shift([NoCall EXCEPT !.op = "derive", !.kem = kem, !.ikm = ikm,
                                !.res = Ok(derive_keypair(kem, ikm))])
        /\ UNCHANGED rng

GenKeypair ==
    \E kem \in Kems :
        /\ rng.reads < MaxFills
        /\ LET g == gen_keypair(kem, rng)
           IN  /\ rng' = g.csprng
               /\ Shift([NoCall EXCEPT !.op = "gen", !.kem = kem,
                                       !.csprng = Some(rng),
                                       !.res = Ok(g.keypair)])

EncapWithEph ==
    \E kem \in Kems, pk_recip \in PublicKeys, sender \in SenderPairs,
       sk_eph \in PrivateKeys :
        /\ Shift([NoCall EXCEPT !.op = "encap", !.kem = kem,
                                !.pk_recip = pk_recip, !.sender = sender,
                                !.sk_eph = sk_eph,
                                !.res = encap_with_eph(kem, pk_recip, sender, sk_eph)])
        /\ UNCHANGED rng

Decap ==
    \E kem \in Kems, sk_recip \in PrivateKeys, pk_sender \in SenderKeys,
       pk_eph \in PublicKeys :
        /\ Shift([NoCall EXCEPT !.op = "decap", !.kem = kem,
                                !.sk_recip = sk_recip, !.pk_sender = pk_sender,
                                !.enc = Some(EncappedKey(pk_eph)),
                                !.res = decap(kem, sk_recip, pk_sender,
                                              EncappedKey(pk_eph))])
        /\ UNCHANGED rng

Next == DeriveKeypair \/ GenKeypair \/ EncapWithEph \/ Decap

Spec == Init /\ [][Next]_vars

---------------------------------------------------------------------------
(* Properties *)

\* `last` decapsulates what `prev` encapsulated
Opens == prev.op = "encap" /\ last.op = "decap" /\ Answers(prev, last)

\* the sender identity pair given to an authenticated encap
SenderSk(c) == c.sender[1][1]
SenderPk(c) == c.sender[1][2]

\* the inputs of the KDF call behind a shared secret
IkmOf(secret) == secret[1][1]
InfoOf(secret) == secret[1][3]

\* the KDF of a call's KEM cannot fill a shared secret
KdfFails(c) == ~extract_and_expand(c.kem.kdf, <<>>, <<>>, <<>>, NSecret(c.kem)).ok

\* one of the call's Diffie-Hellman exchanges is invalid
EncapDhFails(c) ==
    \/ ~dh(c.sk_eph, c.pk_recip).ok
    \/ c.sender # None /\ ~dh(SenderSk(c), c.pk_recip).ok
DecapDhFails(c) ==
    \/ ~dh(c.sk_recip, c.enc[1][1]).ok
    \/ c.pk_sender # None /\ ~dh(c.sk_recip, c.pk_sender[1]).ok

\* C1: a decap without sender identity, by the recipient an unauthenticated
\* encap addressed and of the encapped key it returned, succeeds and returns
\* the shared secret encap returned.
RoundTripBase ==
    (Opens /\ prev.sender = None /\ last.pk_sender = None)
        => last.res = Ok(prev.res.val[1])

RoundTripBaseWitness ==
    /\ Opens /\ prev.sender = None /\ last.pk_sender = None
    /\ last.res.tag = "Ok"
    /\ prev.pk_recip # prev.res.val[2][1]

\* C2: a decap with the sender's public key, of the encapped key an
\* authenticated encap with that sender's keypair returned, succeeds and
\* returns encap's shared secret; both derive it from dh_eph || dh_identity
\* and enc || pk_recip || pk_sender.
RoundTripAuth ==
    (/\ Opens /\ prev.sender # None
     /\ SenderPk(prev) = sk_to_pk(SenderSk(prev))
     /\ last.pk_sender = Some(SenderPk(prev)))
        => /\ last.res = Ok(prev.res.val[1])
           /\ IkmOf(last.res.val) =
                  KexResultToBytes(dh(last.sk_recip, last.enc[1][1]).val)
                  \o KexResultToBytes(dh(last.sk_recip, last.pk_sender[1]).val)
           /\ IkmOf(prev.res.val[1]) =
                  KexResultToBytes(dh(prev.sk_eph, prev.pk_recip).val)
                  \o KexResultToBytes(dh(SenderSk(prev), prev.pk_recip).val)
           /\ InfoOf(last.res.val) =
                  EncappedKeyToBytes(last.enc[1])
                  \o PublicKeyToBytes(sk_to_pk(last.sk_recip))
                  \o PublicKeyToBytes(last.pk_sender[1])
           /\ InfoOf(prev.res.val[1]) = InfoOf(last.res.val)

RoundTripAuthWitness ==
    /\ Opens /\ prev.sender # None
    /\ SenderPk(prev) = sk_to_pk(SenderSk(prev))
    /\ last.pk_sender = Some(SenderPk(prev))
    /\ last.res.tag = "Ok"
    /\ SenderSk(prev) # prev.sk_eph

\* the modes of `prev` and `last` differ
ModeMismatch ==
    /\ Opens
    /\ (prev.sender = None) # (last.pk_sender = None)

\* C3, as stated: a decap in the other mode than the encap never returns an
\* error, and returns a secret different from encap's.
ModeMismatchNeverErrors ==
    ModeMismatch => (last.res.tag = "Ok" /\ last.res.val # prev.res.val[1])

\* C3, amended: a decap in the other mode returns DecapError when it is given
\* a sender public key whose exchange with the recipient's private key is
\* invalid; in every other case it returns no error, and a secret different
\* from encap's.
ModeMismatchDiverges ==
    ModeMismatch =>
        IF last.pk_sender # None /\ ~dh(last.sk_recip, last.pk_sender[1]).ok
        THEN last.res = Err(DecapError)
        ELSE last.res.tag = "Ok" /\ last.res.val # prev.res.val[1]

ModeMismatchWitness ==
    /\ ModeMismatch
    /\ prev.sender = None
    /\ last.res.tag = "Ok"
    /\ last.res.val # prev.res.val[1]

\* C4: an invalid exchange makes encap_with_eph return exactly EncapError and
\* decap exactly DecapError, with no secret and no encapped key; encap never
\* returns DecapError and decap never EncapError.
DhFailureIsOwnError ==
    /\ last.op = "encap" =>
          /\ EncapDhFails(last) => last.res = Err(EncapError)
          /\ last.res.tag = "Err" => last.res.err = EncapError /\ last.res.val = <<>>
    /\ last.op = "decap" =>
          /\ DecapDhFails(last) => last.res = Err(DecapError)
          /\ last.res.tag = "Err" => last.res.err = DecapError /\ last.res.val = <<>>

DhFailureWitness ==
    /\ last.op = "decap"
    /\ dh(last.sk_recip, last.enc[1][1]).ok
    /\ last.pk_sender # None
    /\ ~dh(last.sk_recip, last.pk_sender[1]).ok
    /\ last.res = Err(DecapError)

\* C5: the encapped key of a successful encap_with_eph wraps
\* sk_to_pk(sk_eph), whatever the recipient and the sender identity, and
\* serializes to the group's serialization of that public key.
EncappedKeyIsEphemeralPk ==
    (last.op = "encap" /\ last.res.tag = "Ok") =>
        /\ last.res.val[2] = EncappedKey(sk_to_pk(last.sk_eph))
        /\ EncappedKeyToBytes(last.res.val[2]) =
               PublicKeyToBytes(sk_to_pk(last.sk_eph))

EncappedKeyWitness ==
    /\ last.op = "encap" /\ last.res.tag = "Ok"
    /\ last.sender # None
    /\ last.pk_recip # sk_to_pk(last.sk_eph)
    /\ SenderPk(last) # sk_to_pk(last.sk_eph)

DeriveKeypairSeparated ==
    (/\ prev.op = "derive" /\ last.op = "derive"
     /\ last.ikm = prev.ikm
     /\ last.kem.kdf = prev.kem.kdf
     /\ last.kem.kem_id # prev.kem.kem_id)
        => last.res.val # prev.res.val

DeriveKeypairSeparatedWitness ==
    /\ prev.op = "derive" /\ last.op = "derive"
    /\ last.ikm = prev.ikm
    /\ last.kem.kdf = prev.kem.kdf
    /\ last.kem.kem_id # prev.kem.kem_id
    /\ last.res.tag = "Ok"

\* C9: gen_keypair reads the randomness source once, for PrivateKeySize
\* bytes, and returns derive_keypair of the bytes read; no other operation
\* reads the source.
GenKeypairReadsOnce ==
    [][ /\ last'.op = "gen" =>
              /\ last'.csprng = Some(rng)
              /\ rng'.reads = rng.reads + 1
              /\ rng'.pos = rng.pos + PrivateKeySize
              /\ rng'.seed = rng.seed
              /\ last'.res =
                     Ok(derive_keypair(last'.kem,
                                       RngBytes(rng.seed, rng.pos, PrivateKeySize)))
        /\ last'.op # "gen" => rng' = rng ]_vars

GenKeypairWitness ==
    /\ last.op = "gen"
    /\ rng.reads = 1
    /\ last.res.tag = "Ok"

\* an authenticated encap with a sender public key that is not the public
\* key of the sender private key, opened with that sender public key, all
\* exchanges valid
InconsistentSender ==
    /\ Opens /\ prev.sender # None
    /\ SenderPk(prev) # sk_to_pk(SenderSk(prev))
    /\ last.pk_sender = Some(SenderPk(prev))
    /\ dh(last.sk_recip, last.pk_sender[1]).ok

\* the kem_context of encap binds the sender public key it was given
BindsGivenSenderPk ==
    InfoOf(prev.res.val[1]) =
        EncappedKeyToBytes(prev.res.val[2])
        \o PublicKeyToBytes(prev.pk_recip)
        \o PublicKeyToBytes(SenderPk(prev))

=============================================================================
